---- MODULE Spec2Model ----
(***************************************************************************)
(* Model of dsa_notifier.py: a daily Slack notifier that reads practice    *)
(* questions from a CSV file, selects the slice of the day by date offset, *)
(* posts it and marks the slice as Pushed in the CSV file.                 *)
(*                                                                         *)
(* Time is a day counter (today) and a flag telling whether the time of    *)
(* day is at or past SEND_TIME (afterSend).  A record of the CSV file is    *)
(* identified by its Question value; its position is its 0-based row       *)
(* number, which pandas uses as the index label.  Topic and Category are   *)
(* carried along with Question and are not modelled separately.  One run   *)
(* of job() reads the clock on one calendar day.                           *)
(***************************************************************************)
EXTENDS Integers, Sequences, FiniteSets

VARIABLES
  csv,                \* the file CSV_FILE on disk
  QUESTIONS_PER_DAY,  \* configuration, read once at start-up
  configOK,           \* SLACK_BOT_TOKEN and SLACK_CHANNEL are both set
  runNow,             \* "--run-now" in sys.argv
  today,              \* datetime.now().date(), as a day number
  afterSend,          \* time of day >= SEND_TIME
  pc,                 \* position of the process
  exitCode,           \* exit status once pc = "exited", else -1
  jobs,               \* schedule's job list: the next_run day of each job
  lastRun,            \* log of the latest run of job()
  prev,               \* log of the run of job() before that
  trigger,            \* the trigger last served by the loop, and how often
  last,               \* the step taken last
  fnIn,               \* inputs of the functions applied in SpecFn
  fnOut               \* their results

vars == <<csv, QUESTIONS_PER_DAY, configOK, runNow, today, afterSend, pc,
          exitCode, jobs, lastRun, prev, trigger, last, fnIn, fnOut>>

\* ---------------------------------------------------------------- bounds
MaxLen == 3      \* records in the CSV file
MaxBatch == 2    \* QUESTIONS_PER_DAY
MaxDay == 2      \* last day of the model
BeforeStart == 1 \* days before START_DATE at which the model may start

\* START_DATE is day 0 of the day counter.
START_DATE == 0

Min(a, b) == IF a <= b THEN a ELSE b

\* ------------------------------------------------------------- messages
CompletionMsg == [kind |-> "completion", entries |-> <<>>]
ErrorMsg == [kind |-> "load_error", entries |-> <<>>]
NoQuestionsMsg == [kind |-> "no_questions_today", entries |-> <<>>]

\* ----------------------------------------------------------- DataFrames
\* pd.DataFrame(): no columns, no rows.
EmptyDataFrame == [hasPushed |-> FALSE, rows |-> <<>>]

\* df.empty
DfEmpty(df) == Len(df.rows) = 0

ensure_pushed_column(df) ==
  IF ~df.hasPushed
    THEN [hasPushed |-> TRUE,
          rows |-> [i \in 1..Len(df.rows) |-> [df.rows[i] EXCEPT !.Pushed = FALSE]]]
    ELSE df

\* pd.read_csv gives the rows a RangeIndex 0..n-1.
read_csv(file) ==
  [hasPushed |-> file.hasPushed,
   rows |-> [i \in 1..Len(file.rows) |->
               [idx |-> i - 1, Question |-> file.rows[i].Question,
                Pushed |-> file.rows[i].Pushed]]]

\* Faulty variant of load_questions: the failure of read_csv is not turned
\* into an empty DataFrame.
load_questions_unguarded(file, outcome) ==
  ensure_pushed_column(read_csv(file))

load_questions(file, outcome) ==
  IF outcome = "ok" THEN ensure_pushed_column(read_csv(file))
  ELSE EmptyDataFrame

\* df.to_csv(csv_file, index=False): every row, in order, without the index.
to_csv(df) ==
  [hasPushed |-> df.hasPushed,
   rows |-> [i \in 1..Len(df.rows) |->
               [Question |-> df.rows[i].Question, Pushed |-> df.rows[i].Pushed]]]

\* The file after save_questions: a failing to_csv is caught and logged.
save_questions(df, file, outcome) ==
  IF outcome = "ok" THEN [csv |-> to_csv(df), wrote |-> TRUE]
  ELSE [csv |-> file, wrote |-> FALSE]

\* rows.iloc[s:e] for 0 <= s <= e: positions s .. e-1, clipped to the rows.
iloc(rows, s, e) ==
  LET lo == Min(s, Len(rows))
      hi == Min(e, Len(rows))
  IN [k \in 1..(hi - lo) |-> rows[lo + k]]

\* Faulty variant of get_today_questions: the slice includes end_idx.
get_today_questions_inclusive(df, now, questions_per_day) ==
  LET delta_days == now - START_DATE
      start_idx == delta_days * questions_per_day
      end_idx == start_idx + questions_per_day
  IN IF delta_days < 0 THEN <<>>
     ELSE IF start_idx >= Len(df.rows) THEN <<>>
     ELSE iloc(df.rows, start_idx, end_idx + 1)

get_today_questions(df, now, questions_per_day) ==
  LET delta_days == now - START_DATE
      start_idx == delta_days * questions_per_day
      end_idx == start_idx + questions_per_day
  IN IF delta_days < 0 THEN <<>>
     ELSE IF start_idx >= Len(df.rows) THEN <<>>
     ELSE iloc(df.rows, start_idx, end_idx)

\* Faulty variant of question_number: the index label is not reduced
\* modulo the batch size.
question_number_no_modulo(idx, now, questions_per_day) ==
  LET day_number == (now - START_DATE) + 1
  IN (day_number - 1) * questions_per_day + idx + 1

question_number(idx, now, questions_per_day) ==
  LET day_number == (now - START_DATE) + 1
  IN (day_number - 1) * questions_per_day + (idx % questions_per_day) + 1

format_questions(questions, now, questions_per_day) ==
  IF Len(questions) = 0 THEN CompletionMsg
  ELSE [kind |-> "questions",
        entries |-> [k \in 1..Len(questions) |->
                       [number |-> question_number(questions[k].idx, now, questions_per_day),
                        Question |-> questions[k].Question]]]

\* Faulty variant of send_slack_message: only SlackApiError counts as a
\* failure.
send_slack_message_api_error_only(api) == api # "SlackApiError"

send_slack_message(api) == api = "ok"

\* today_questions.index
Indices(questions) == [k \in 1..Len(questions) |-> questions[k].idx]

Range(seq) == {seq[k] : k \in 1..Len(seq)}

\* df.loc[today_indices, 'Pushed'].all()
pushed_all(df, today_indices) ==
  \A i \in 1..Len(df.rows) :
    df.rows[i].idx \in Range(today_indices) => df.rows[i].Pushed

\* Faulty variant of mark_pushed: every row is marked.
mark_pushed_every_row(df, today_indices) ==
  [df EXCEPT !.rows =
     [i \in 1..Len(df.rows) |-> [df.rows[i] EXCEPT !.Pushed = TRUE]]]

\* df.loc[today_indices, 'Pushed'] = True
mark_pushed(df, today_indices) ==
  [df EXCEPT !.rows =
     [i \in 1..Len(df.rows) |->
        IF df.rows[i].idx \in Range(today_indices)
          THEN [df.rows[i] EXCEPT !.Pushed = TRUE]
          ELSE df.rows[i]]]

\* Faulty variant of after_send: the batch is marked and saved whatever
\* the send returned.
after_send_unconditional(df, file, today_indices, sent, save) ==
  save_questions(mark_pushed(df, today_indices), file, save)

\* The file after the branch on the result of the send in job().
after_send(df, file, today_indices, sent, save) ==
  IF sent THEN save_questions(mark_pushed(df, today_indices), file, save)
  ELSE [csv |-> file, wrote |-> FALSE]

NoRun ==
  [ran |-> FALSE, day |-> 0, load |-> "none", selCalled |-> FALSE,
   selected |-> <<>>, msgs |-> <<>>, api |-> "none", sent |-> FALSE,
   wrote |-> FALSE, before |-> EmptyDataFrame]

LoadOutcomes == {"ok", "FileNotFoundError", "Exception"}
ApiOutcomes == {"ok", "SlackApiError", "Exception"}
SaveOutcomes == {"ok", "Exception"}

\* One run of job(): the file it leaves and the log of what it did.
job(file, now, qpd, load, api, save) ==
  LET df == load_questions(file, load)
      base == [NoRun EXCEPT !.ran = TRUE, !.day = now, !.load = load,
                            !.before = file]
  IN IF DfEmpty(df)
       THEN [csv |-> file,
             log |-> [base EXCEPT !.msgs = <<ErrorMsg>>, !.api = api,
                                  !.sent = send_slack_message(api)]]
     ELSE
       LET today_questions == get_today_questions(df, now, qpd)
           today_indices == Indices(today_questions)
           sel == [base EXCEPT !.selCalled = TRUE, !.selected = today_indices]
       IN IF Len(today_questions) = 0
            THEN [csv |-> file,
                  log |-> [sel EXCEPT !.msgs = <<NoQuestionsMsg>>, !.api = api,
                                      !.sent = send_slack_message(api)]]
          ELSE IF pushed_all(df, today_indices)
            THEN [csv |-> file, log |-> sel]
          ELSE
            LET message == format_questions(today_questions, now, qpd)
                sent == send_slack_message(api)
                res == after_send(df, file, today_indices, sent, save)
            IN [csv |-> res.csv,
                log |-> [sel EXCEPT !.msgs = <<message>>, !.api = api,
                                    !.sent = sent, !.wrote = res.wrote]]

\* --------------------------------------------------------------- state
\* The CSV files the program may be started on: 0..MaxLen records, with or
\* without a Pushed column; a file that has the column holds any flags.
Files ==
  UNION {
    { [hasPushed |-> TRUE,
       rows |-> [i \in 1..n |-> [Question |-> i, Pushed |-> f[i]]]]
        : f \in [1..n -> BOOLEAN] }
    \cup
    { [hasPushed |-> FALSE,
       rows |-> [i \in 1..n |-> [Question |-> i, Pushed |-> FALSE]]] }
    : n \in 0..MaxLen }

FnIdle == [df |-> EmptyDataFrame, now |-> 0, qpd |-> 1]
FnNone == [stage |-> "none", questions |-> <<>>, message |-> CompletionMsg]

Init ==
  /\ csv \in Files
  /\ QUESTIONS_PER_DAY \in 1..MaxBatch
  /\ configOK \in BOOLEAN
  /\ runNow \in BOOLEAN
  /\ today \in (START_DATE - BeforeStart)..MaxDay
  /\ afterSend \in BOOLEAN
  /\ pc = "boot"
  /\ exitCode = -1
  /\ jobs = <<>>
  /\ lastRun = NoRun
  /\ prev = NoRun
  /\ trigger = [day |-> START_DATE - BeforeStart - 1, runs |-> 0]
  /\ last = "init"
  /\ fnIn = FnIdle
  /\ fnOut = FnNone

\* schedule.every().day.at(SEND_TIME): the day of the next SEND_TIME.
next_run == IF afterSend THEN today + 1 ELSE today

\* Job.should_run
should_run(j) == jobs[j] < today \/ (jobs[j] = today /\ afterSend)

\* Missing SLACK_BOT_TOKEN or SLACK_CHANNEL: exit(1) before anything runs.
ConfigExit ==
  /\ pc = "boot" /\ ~configOK
  /\ pc' = "exited" /\ exitCode' = 1 /\ last' = "ConfigExit"
  /\ UNCHANGED <<csv, QUESTIONS_PER_DAY, configOK, runNow, today, afterSend,
                 jobs, lastRun, prev, trigger, fnIn, fnOut>>

\* The module-level schedule.every().day.at(SEND_TIME).do(job).
ModuleRegister ==
  /\ pc = "boot" /\ configOK
  /\ jobs' = Append(jobs, next_run)
  /\ pc' = "main" /\ last' = "ModuleRegister"
  /\ UNCHANGED <<csv, QUESTIONS_PER_DAY, configOK, runNow, today, afterSend,
                 exitCode, lastRun, prev, trigger, fnIn, fnOut>>

\* --run-now: job() once, then sys.exit(0).
RunNow ==
  /\ pc = "main" /\ runNow
  /\ \E load \in LoadOutcomes, api \in ApiOutcomes, save \in SaveOutcomes :
       LET r == job(csv, today, QUESTIONS_PER_DAY, load, api, save)
       IN csv' = r.csv /\ lastRun' = r.log /\ prev' = lastRun
  /\ pc' = "exited" /\ exitCode' = 0 /\ last' = "RunNow"
  /\ UNCHANGED <<QUESTIONS_PER_DAY, configOK, runNow, today, afterSend, jobs,
                 trigger, fnIn, fnOut>>

\* The schedule.every().day.at(SEND_TIME).do(job) under __main__.
MainRegister ==
  /\ pc = "main" /\ ~runNow
  /\ jobs' = Append(jobs, next_run)
  /\ pc' = "loop" /\ last' = "MainRegister"
  /\ UNCHANGED <<csv, QUESTIONS_PER_DAY, configOK, runNow, today, afterSend,
                 exitCode, lastRun, prev, trigger, fnIn, fnOut>>

\* schedule.run_pending(): the first job that is due runs and is scheduled
\* for the next day's SEND_TIME; run_pending goes on to the next due job.
RunPending ==
  /\ pc = "loop"
  /\ \E j \in 1..Len(jobs) :
       /\ should_run(j)
       /\ \A k \in 1..(j - 1) : ~should_run(k)
       /\ \E load \in LoadOutcomes, api \in ApiOutcomes, save \in SaveOutcomes :
            LET r == job(csv, today, QUESTIONS_PER_DAY, load, api, save)
            IN csv' = r.csv /\ lastRun' = r.log /\ prev' = lastRun
       /\ trigger' = [day |-> jobs[j],
                      runs |-> IF trigger.day = jobs[j] THEN trigger.runs + 1 ELSE 1]
       /\ jobs' = [jobs EXCEPT ![j] = next_run]
  /\ last' = "RunPending"
  /\ UNCHANGED <<QUESTIONS_PER_DAY, configOK, runNow, today, afterSend, pc,
                 exitCode, fnIn, fnOut>>

\* time.sleep(60) with no job due: the clock reaches SEND_TIME or midnight.
Sleep ==
  /\ pc = "loop"
  /\ \A j \in 1..Len(jobs) : ~should_run(j)
  /\ IF afterSend
       THEN today < MaxDay /\ today' = today + 1 /\ afterSend' = FALSE
       ELSE today' = today /\ afterSend' = TRUE
  /\ last' = "Sleep"
  /\ UNCHANGED <<csv, QUESTIONS_PER_DAY, configOK, runNow, pc, exitCode, jobs,
                 lastRun, prev, trigger, fnIn, fnOut>>

\* KeyboardInterrupt ends the loop and the script.
Interrupt ==
  /\ pc = "loop"
  /\ pc' = "exited" /\ exitCode' = 0 /\ last' = "Interrupt"
  /\ UNCHANGED <<csv, QUESTIONS_PER_DAY, configOK, runNow, today, afterSend,
                 jobs, lastRun, prev, trigger, fnIn, fnOut>>

Next ==
  \/ ConfigExit
  \/ ModuleRegister
  \/ RunNow
  \/ MainRegister
  \/ RunPending
  \/ Sleep
  \/ Interrupt

Spec == Init /\ [][Next]_vars

\* ------------------------------------------------ the functions alone
\* get_today_questions and format_questions applied to every loaded
\* DataFrame, day and batch size within the bounds.
FnInputs ==
  { [df |-> load_questions(f, "ok"), now |-> d, qpd |-> b] :
      f \in Files, d \in (START_DATE - BeforeStart)..MaxDay, b \in 1..MaxBatch }

InitFn ==
  /\ fnIn \in FnInputs
  /\ fnOut = FnNone
  /\ csv = EmptyDataFrame
  /\ QUESTIONS_PER_DAY = 1
  /\ configOK = TRUE
  /\ runNow = FALSE
  /\ today = START_DATE
  /\ afterSend = FALSE
  /\ pc = "fn"
  /\ exitCode = -1
  /\ jobs = <<>>
  /\ lastRun = NoRun
  /\ prev = NoRun
  /\ trigger = [day |-> START_DATE - BeforeStart - 1, runs |-> 0]
  /\ last = "init"

ApplySelect ==
  /\ pc = "fn" /\ fnOut.stage = "none"
  /\ fnOut' = [fnOut EXCEPT !.stage = "selected",
                 !.questions = get_today_questions(fnIn.df, fnIn.now, fnIn.qpd)]
  /\ UNCHANGED <<csv, QUESTIONS_PER_DAY, configOK, runNow, today, afterSend, pc,
                 exitCode, jobs, lastRun, prev, trigger, last, fnIn>>

ApplyFormat ==
  /\ pc = "fn" /\ fnOut.stage = "selected"
  /\ fnOut' = [fnOut EXCEPT !.stage = "formatted",
                 !.message = format_questions(fnOut.questions, fnIn.now, fnIn.qpd)]
  /\ UNCHANGED <<csv, QUESTIONS_PER_DAY, configOK, runNow, today, afterSend, pc,
                 exitCode, jobs, lastRun, prev, trigger, last, fnIn>>

NextFn ==
  \/ ApplySelect
  \/ ApplyFormat

SpecFn == InitFn /\ [][NextFn]_vars

\* --------------------------------------------------------------- claims
\* The step taken last was a run of job().
JobRan == last \in {"RunNow", "RunPending"}

\* The Pushed flag of the record in row i of a file (row i is position i-1).
Delivered(file, i) == file.hasPushed /\ file.rows[i].Pushed

\* The records of a file, in order.
Order(file) == [i \in 1..Len(file.rows) |-> file.rows[i].Question]

\* The latest run passed a questions message to send_slack_message.
SentQuestions(run) == run.msgs # <<>> /\ run.msgs[1].kind = "questions"

\* The questions a run's message lists.
Listed(run) == {run.msgs[1].entries[k].Question : k \in 1..Len(run.msgs[1].entries)}

\* C1: in every step, a record's Pushed flag in the file changes only from
\* false to true, and only in a run of job() whose post of a questions
\* message listing that record succeeded; no flag goes from true to false
\* and no record is added or removed.
C1_DeliveredOnlyAfterSuccess ==
  [][ /\ Len(csv'.rows) = Len(csv.rows)
      /\ \A i \in 1..Len(csv.rows) :
           /\ Delivered(csv, i) => Delivered(csv', i)
           /\ (~Delivered(csv, i) /\ Delivered(csv', i)) =>
                /\ last' \in {"RunNow", "RunPending"}
                /\ lastRun'.api = "ok"
                /\ SentQuestions(lastRun')
                /\ (i - 1) \in Range(lastRun'.selected)
                /\ csv.rows[i].Question \in Listed(lastRun') ]_vars

C1_Witness ==
  /\ JobRan /\ lastRun.wrote
  /\ \E i \in 1..Len(csv.rows) : ~Delivered(lastRun.before, i) /\ Delivered(csv, i)
  /\ \E i \in 1..Len(csv.rows) : Delivered(lastRun.before, i)

\* C2: after a run of job() in which the post failed (Slack rejected it or
\* any other exception), the file is what it was when the run started and
\* the run did not write it.
C2_FailedSendLeavesStore ==
  (JobRan /\ lastRun.api \in {"SlackApiError", "Exception"}) =>
    (csv = lastRun.before /\ ~lastRun.wrote)

C2_Witness ==
  /\ JobRan /\ lastRun.api = "Exception" /\ SentQuestions(lastRun)
  /\ \E i \in 1..Len(csv.rows) : ~Delivered(csv, i)

\* C3 (as claimed): when the send of a batch failed in one run, the next
\* run that loads the file selects the same positions and sends them again,
\* also when that run is on a later day.
C3_SameBatchRetried ==
  (last = "RunPending" /\ prev.ran /\ SentQuestions(prev) /\ ~prev.sent
     /\ lastRun.load = "ok") =>
    (lastRun.selected = prev.selected /\ SentQuestions(lastRun))

C5_OnlyUndeliveredSent ==
  (JobRan /\ SentQuestions(lastRun)) =>
    /\ Len(lastRun.selected) <= QUESTIONS_PER_DAY
    /\ \A k \in 1..(Len(lastRun.selected) - 1) :
         lastRun.selected[k + 1] = lastRun.selected[k] + 1
    /\ \A k \in 1..Len(lastRun.selected) :
         ~Delivered(lastRun.before, lastRun.selected[k] + 1)

\* C6 (as claimed): a run on or after START_DATE that loads a file all of
\* whose records are Pushed selects nothing, sends the completion message and nothing else, and does
\* not write the file.
C6_AllDeliveredSendsCompletion ==
  (JobRan /\ lastRun.load = "ok" /\ Len(lastRun.before.rows) > 0
     /\ lastRun.day >= START_DATE
     /\ \A i \in 1..Len(lastRun.before.rows) : Delivered(lastRun.before, i)) =>
    /\ lastRun.selected = <<>>
    /\ lastRun.msgs = <<CompletionMsg>>
    /\ ~lastRun.wrote
    /\ csv = lastRun.before

\* C7: after a run whose load failed or found no records, the run has
\* passed the error notification and nothing else to the sender, has made no
\* selection, has left the file as it was without writing it, and has
\* returned: under the scheduling loop the process is still in the loop,
\* whatever the result of sending the notification.
C7_LoadFailureEndsRun ==
  (JobRan /\ (lastRun.load # "ok" \/ Len(lastRun.before.rows) = 0)) =>
    /\ lastRun.msgs = <<ErrorMsg>>
    /\ ~lastRun.selCalled
    /\ lastRun.selected = <<>>
    /\ csv = lastRun.before
    /\ ~lastRun.wrote
    /\ last = "RunPending" => (pc = "loop" /\ exitCode = -1)

C7_Witness ==
  /\ last = "RunPending" /\ lastRun.load = "FileNotFoundError"
  /\ ~lastRun.sent /\ pc = "loop"
  /\ \E i \in 1..Len(csv.rows) : ~Delivered(csv, i)

\* C8 (as claimed): the loop runs job() at most once for each daily trigger.
C8_OneRunPerTrigger == trigger.runs <= 1

\* C9: the result of get_today_questions for a DataFrame of L rows, batch
\* size B and day offset d is empty when d < 0 or d*B >= L, and otherwise is
\* the rows at positions d*B .. min(d*B + B, L) - 1 in order, each with its
\* own index label; it has at most B rows, and fewer than B only when it
\* ends with the last row.
C9_DateOffsetSlice ==
  (fnOut.stage # "none") =>
    LET L == Len(fnIn.df.rows)
        B == fnIn.qpd
        d == fnIn.now - START_DATE
        q == fnOut.questions
    IN /\ d < 0 => q = <<>>
       /\ d * B >= L => q = <<>>
       /\ (d >= 0 /\ d * B < L) =>
            /\ Len(q) = Min(d * B + B, L) - d * B
            /\ \A k \in 1..Len(q) :
                 q[k].idx = d * B + k - 1 /\ q[k] = fnIn.df.rows[d * B + k]
       /\ Len(q) <= B
       /\ (q # <<>> /\ Len(q) < B) => q[Len(q)].idx = L - 1

C9_Witness ==
  /\ fnOut.stage = "selected" /\ fnIn.now > START_DATE
  /\ fnOut.questions # <<>> /\ Len(fnOut.questions) < fnIn.qpd

\* C10: format_questions gives the completion message for an empty batch;
\* for a batch selected by day offset d it gives one entry per record, in
\* order, and entry i (from 0) has the number d*B + i + 1, which is the
\* record's position plus one.
C10_NumberedEntries ==
  (fnOut.stage = "formatted") =>
    LET B == fnIn.qpd
        d == fnIn.now - START_DATE
        q == fnOut.questions
        m == fnOut.message
    IN /\ q = <<>> => m = CompletionMsg
       /\ q # <<>> =>
            /\ m.kind = "questions"
            /\ Len(m.entries) = Len(q)
            /\ \A k \in 1..Len(q) :
                 /\ m.entries[k].Question = q[k].Question
                 /\ m.entries[k].number = d * B + (k - 1) + 1
                 /\ m.entries[k].number = q[k].idx + 1

C10_Witness ==
  /\ fnOut.stage = "formatted" /\ fnIn.now > START_DATE
  /\ fnOut.message.kind = "questions"
  /\ Len(fnOut.message.entries) >= 1

====
